---- MODULE Spec2Model ----
(***************************************************************************)
(* The At controller of cnat-kubebuilder: the reconcile state machine      *)
(* PENDING -> RUNNING -> DONE (internal/controller/at_controller.go), the  *)
(* store it reads and writes, the work queue and the worker loop that call *)
(* Reconcile, and the environment (user, kubelet, garbage collector,       *)
(* clock).                                                                 *)
(*                                                                         *)
(* Time is counted in whole seconds (Unix time).  A schedule is the string *)
(* of spec.schedule, kept as the sequence of its characters so that        *)
(* time.Parse is computed, not assumed.                                    *)
(***************************************************************************)
EXTENDS Integers, Sequences, FiniteSets, TLC

(* ------------------------------------------------------------------ *)
(* Bounds of the model                                                 *)
(* ------------------------------------------------------------------ *)

\* the clock advances at most this many seconds after StartTime
MaxTicks == 2
\* the user edits spec.schedule at most this many times
MaxEdits == 1
\* at most this many external calls fail with a transient error
MaxFaults == 1
\* number of worker loops of the controller
NumWorkers == 2
\* the most objects a listing returns
MaxItems == 2
\* the longest spec.command
MaxCmd == 2

(* ------------------------------------------------------------------ *)
(* Names                                                               *)
(* ------------------------------------------------------------------ *)

\* the resource names of the namespace
Keys == {"a", "b"}
\* the resource users create where one resource is enough
Created == {"a"}
Workers == 1..NumWorkers
NoKey == "-"
\* "no time": below every clock reading
None == 0 - 1

PhasePending == "PENDING"
PhaseRunning == "RUNNING"
PhaseDone == "DONE"
PhaseOrder == <<"", PhasePending, PhaseRunning, PhaseDone>>
\* a value of status.phase that is none of the controller's
PhaseOther == "PAUSED"

PodPending == "Pending"
PodRunning == "Running"
PodSucceeded == "Succeeded"
PodFailed == "Failed"

(* ------------------------------------------------------------------ *)
(* time.Parse with the layout "2006-01-02T15:04:05Z"                   *)
(* ------------------------------------------------------------------ *)

Digits == {"0", "1", "2", "3", "4", "5", "6", "7", "8", "9"}

DigitVal(c) ==
    CASE c = "0" -> 0 [] c = "1" -> 1 [] c = "2" -> 2 [] c = "3" -> 3
      [] c = "4" -> 4 [] c = "5" -> 5 [] c = "6" -> 6 [] c = "7" -> 7
      [] c = "8" -> 8 [] c = "9" -> 9

\* the number written by the two characters at i, i+1
Num2(s, i) == 10 * DigitVal(s[i]) + DigitVal(s[i + 1])

\* the number written by the four characters at i .. i+3
Num4(s, i) == 100 * Num2(s, i) + Num2(s, i + 2)

IsLeap(y) == (y % 4 = 0 /\ y % 100 # 0) \/ y % 400 = 0

DaysIn(y, m) ==
    CASE m \in {1, 3, 5, 7, 8, 10, 12} -> 31
      [] m \in {4, 6, 9, 11} -> 30
      [] m = 2 -> IF IsLeap(y) THEN 29 ELSE 28

RECURSIVE DaysBeforeMonth(_, _)
DaysBeforeMonth(y, m) ==
    IF m = 1 THEN 0 ELSE DaysBeforeMonth(y, m - 1) + DaysIn(y, m - 1)

\* leap years in 1 .. y-1
LeapsBefore(y) == ((y - 1) \div 4) - ((y - 1) \div 100) + ((y - 1) \div 400)

\* days from 1970-01-01 to y-m-d
DaysFromEpoch(y, m, d) ==
    365 * (y - 1970) + (LeapsBefore(y) - LeapsBefore(1970))
        + DaysBeforeMonth(y, m) + (d - 1)

Unix(y, m, d, hh, mm, ss) ==
    DaysFromEpoch(y, m, d) * 86400 + hh * 3600 + mm * 60 + ss

\* the positions of the layout that hold digits, and its literal characters
LayoutDigits == {1, 2, 3, 4, 6, 7, 9, 10, 12, 13, 15, 16, 18, 19}
LayoutLiteral(i) ==
    CASE i \in {5, 8} -> "-" [] i = 11 -> "T" [] i \in {14, 17} -> ":"
      [] i = 20 -> "Z"

Shaped(s) ==
    /\ Len(s) = 20
    /\ \A i \in 1..20 :
          IF i \in LayoutDigits THEN s[i] \in Digits ELSE s[i] = LayoutLiteral(i)

InRange(s) ==
    /\ Num2(s, 6) \in 1..12
    /\ Num2(s, 9) \in 1..DaysIn(Num4(s, 1), Num2(s, 6))
    /\ Num2(s, 12) \in 0..23
    /\ Num2(s, 15) \in 0..59
    /\ Num2(s, 18) \in 0..59

\* time.Parse(layout, schedule): the instant, or an error
Parse(s) ==
    IF Shaped(s) /\ InRange(s)
    THEN [err |-> FALSE,
          t |-> Unix(Num4(s, 1), Num2(s, 6), Num2(s, 9),
                     Num2(s, 12), Num2(s, 15), Num2(s, 18))]
    ELSE [err |-> TRUE, t |-> 0]

\* the variant that swallows the parse error and reports "due now"
timeUntilScheduleLenient(schedule, t) ==
    IF Parse(schedule).err THEN [err |-> FALSE, d |-> 0]
    ELSE [err |-> FALSE, d |-> Parse(schedule).t - t]

\* timeUntilSchedule(schedule) at clock reading t: (duration, error)
timeUntilSchedule(schedule, t) ==
    IF Parse(schedule).err THEN [err |-> TRUE, d |-> 0]
    ELSE [err |-> FALSE, d |-> Parse(schedule).t - t]

(* ------------------------------------------------------------------ *)
(* The schedules users write in this model                             *)
(* ------------------------------------------------------------------ *)

SchedAtStart ==
    <<"2", "0", "2", "6", "-", "0", "1", "-", "0", "1", "T",
      "0", "0", ":", "0", "0", ":", "0", "0", "Z">>
SchedLater ==
    <<"2", "0", "2", "6", "-", "0", "1", "-", "0", "1", "T",
      "0", "0", ":", "0", "0", ":", "0", "2", "Z">>
SchedNotADate == <<"n", "o", "t", "-", "a", "-", "d", "a", "t", "e">>
SchedBadMonth ==
    <<"2", "0", "2", "6", "-", "1", "3", "-", "0", "1", "T",
      "0", "0", ":", "0", "0", ":", "0", "0", "Z">>

WellFormed == {SchedAtStart, SchedLater}
Malformed == {SchedNotADate}
Schedules == WellFormed \cup Malformed

\* the clock reading when the controller starts: 2026-01-01T00:00:00Z
StartTime == Unix(2026, 1, 1, 0, 0, 0)

(* ------------------------------------------------------------------ *)
(* State                                                               *)
(* ------------------------------------------------------------------ *)

VARIABLES
    now,        \* the clock, Unix seconds
    at,         \* the stored At objects, by name
    pods,       \* the stored pods, by name
    wq,         \* the work queue of the controller
    pc,         \* where each worker is in its loop
    wkey,       \* the key a worker is reconciling
    inst,       \* the worker's in-memory copy of the At (instance)
    res,        \* the (Result, error) the worker's Reconcile returns
    log,        \* history: what the worker's current pass has done
    hist,       \* history: the values the stored phase has taken, per key
    creates,    \* history: pods created for a key while its At existed
    doneWrites, \* history: status writes that moved a key to DONE
    runSched,   \* history: the schedule instant under which RUNNING was stored
    prev,       \* history: summary of the key's previous Reconcile pass
    quiet,      \* history: nothing outside the controller has changed since
                \* the previous pass (prev) / the current pass (cur) read the At
    edits,      \* spec edits made so far
    faults,     \* transient failures injected so far
    ctxDone,    \* the ctx handed to the worker's Reconcile is cancelled or
                \* past its deadline
    cli,        \* the run of a listing program: its flags, what the cluster
                \* answers, its position, its output and its exit status
    drv         \* two At objects and the pods newPodForCR has derived from them

vars == <<now, at, pods, wq, pc, wkey, inst, res, log, hist, creates,
          doneWrites, runSched, prev, quiet, edits, faults, ctxDone, cli,
          drv>>

(* ------------------------------------------------------------------ *)
(* Objects                                                             *)
(* ------------------------------------------------------------------ *)

NoAt == [state |-> "absent", schedule |-> <<>>, phase |-> "", rv |-> 0]
GoneAt == [state |-> "deleted", schedule |-> <<>>, phase |-> "", rv |-> 0]
NoPod == [exists |-> FALSE, phase |-> "", owner |-> NoKey]
NoInst == [schedule |-> <<>>, phase |-> "", rv |-> 0]
NoRes == [err |-> FALSE, requeue |-> FALSE, after |-> 0]

Live(k) == at[k].state = "live"

\* the variant that drops empty tokens, as strings.Fields does
RECURSIVE SplitFields(_, _)
SplitFields(s, sep) ==
    IF s = <<>> THEN <<>>
    ELSE LET hits == {i \in 1..Len(s) : s[i] = sep}
             cut == IF hits = {} THEN Len(s) + 1
                    ELSE CHOOSE i \in hits : \A j \in hits : i <= j
             tok == SubSeq(s, 1, cut - 1)
         IN  (IF tok = <<>> THEN <<>> ELSE <<tok>>)
                 \o SplitFields(SubSeq(s, cut + 1, Len(s)), sep)

\* strings.Split(s, sep), sep one character: the pieces of s between the
\* occurrences of sep, empty pieces included, one piece for the empty string
RECURSIVE Split(_, _)
Split(s, sep) ==
    IF s = <<>> THEN << <<>> >>
    ELSE LET rest == Split(Tail(s), sep)
         IN  IF Head(s) = sep THEN << <<>> >> \o rest
             ELSE << <<Head(s)>> \o Head(rest) >> \o Tail(rest)

\* the namespace and the spec.command of the resources the controller is
\* followed on
Namespace == "default"
Command == <<"l", "s", " ", "/">>

\* the At named k as Reconcile holds it, as far as newPodForCR reads it
Cr(k) == [name |-> k, namespace |-> Namespace, command |-> Command, phase |-> ""]

\* newPodForCR(cr): the busybox pod derived from the At cr
newPodForCR(cr) ==
    [name |-> cr.name \o "-pod", namespace |-> cr.namespace, app |-> cr.name,
     container |-> "busybox", image |-> "busybox",
     command |-> Split(cr.command, " "), restartPolicy |-> "OnFailure"]

\* pod := newPodForCR(instance), for each At by name
PodFor == [k \in Keys |-> newPodForCR(Cr(k))]

PodNames == {PodFor[k].name : k \in Keys}

\* strings.Join(tokens, sep)
RECURSIVE Join(_, _)
Join(tokens, sep) ==
    IF Len(tokens) = 0 THEN <<>>
    ELSE IF Len(tokens) = 1 THEN Head(tokens)
    ELSE Head(tokens) \o <<sep>> \o Join(Tail(tokens), sep)

\* the values of spec.command followed: every string of letters and spaces
\* up to MaxCmd characters
RECURSIVE Strings(_)
Strings(n) ==
    IF n = 0 THEN {<<>>}
    ELSE LET shorter == Strings(n - 1)
         IN  shorter \cup {Append(t, c) : t \in shorter, c \in {"x", " "}}

\* the At objects newPodForCR is followed on
Crs ==
    [name : {"a", "b", "a-pod"}, namespace : {"default", "other"},
     command : Strings(MaxCmd), phase : {"", PhaseRunning}]

NotDerived == [name |-> "-"]
NoDrv == [cr |-> <<>>, pod |-> <<>>]

\* pod := newPodForCR(cr), for the i-th of the two objects
Derive(i) ==
    /\ i \in DOMAIN drv.pod
    /\ drv.pod[i] = NotDerived
    /\ drv' = [drv EXCEPT !.pod[i] = newPodForCR(drv.cr[i])]
    /\ UNCHANGED <<now, at, pods, wq, pc, wkey, inst, res, log, hist, creates,
                   doneWrites, runSched, prev, quiet, edits, faults, ctxDone, cli>>

(* ------------------------------------------------------------------ *)
(* The listing programs: main() of the At lister and of the pod lister *)
(* ------------------------------------------------------------------ *)

Programs == {"ats", "pods"}
\* -namespace: all namespaces, or one
Namespaces == {"", "default"}

\* the exit status of a main that returns or calls os.Exit(0), and of log.Fatalf
ExitOk == 0
ExitFatal == 1

\* no listing program runs
NoCli ==
    [prog |-> "-", ns |-> "", cfgOk |-> TRUE, csOk |-> TRUE, listOk |-> TRUE,
     n |-> 0, pc |-> "off", i |-> 0, out |-> <<>>, exit |-> None]

\* flag.Parse() done: the program and its flags, and what the kubeconfig,
\* the clientset constructor and the API server are going to answer
CliStarts ==
    {[prog |-> p, ns |-> s, cfgOk |-> c, csOk |-> d, listOk |-> l, n |-> n,
      pc |-> "config", i |-> 0, out |-> <<>>, exit |-> None] :
        p \in Programs, s \in Namespaces, c \in BOOLEAN, d \in BOOLEAN,
        l \in BOOLEAN, n \in 0..MaxItems}

\* the variant that takes a failed listing for an empty one
AfterListErrQuiet == ExitOk

\* if err != nil { log.Fatalf("Error listing ...") }
AfterListErr == ExitFatal

\* if err != nil { log.Fatalf("Error building kubeconfig / creating
\* clientset / creating Kubernetes client ...") }
AfterClientErr == ExitFatal

Exited(c, status) == [c EXCEPT !.pc = "exited", !.exit = status]

controllerVars ==
    <<now, at, pods, wq, pc, wkey, inst, res, log, hist, creates, doneWrites,
      runSched, prev, quiet, edits, faults, ctxDone, drv>>

\* clientcmd.BuildConfigFromFlags("", kubeconfig)
CliBuildConfig ==
    /\ cli.pc = "config"
    /\ cli' = IF cli.cfgOk THEN [cli EXCEPT !.pc = "clientset"]
              ELSE Exited(cli, AfterClientErr)
    /\ UNCHANGED controllerVars

\* clientset.NewForConfig(config) / kubernetes.NewForConfig(config); the At
\* lister then announces the listing
CliNewForConfig ==
    /\ cli.pc = "clientset"
    /\ cli' = IF ~cli.csOk THEN Exited(cli, AfterClientErr)
              ELSE [cli EXCEPT !.pc = "list",
                               !.out = IF cli.prog = "ats"
                                       THEN Append(@, "fetching") ELSE @]
    /\ UNCHANGED controllerVars

\* List(ctx, metav1.ListOptions{}) and what main does with its answer, up to
\* the loop over the items
CliList ==
    /\ cli.pc = "list"
    /\ cli' = IF ~cli.listOk THEN Exited(cli, AfterListErr)
              ELSE IF cli.n = 0
                   THEN Exited([cli EXCEPT !.out = Append(@, "none")], ExitOk)
                   ELSE [cli EXCEPT !.pc = "print", !.out = Append(@, "found")]
    /\ UNCHANGED controllerVars

\* one turn of the loop over the items
CliPrintItem ==
    /\ cli.pc = "print"
    /\ cli.i < cli.n
    /\ cli' = [cli EXCEPT !.i = @ + 1, !.out = Append(@, "item")]
    /\ UNCHANGED controllerVars

\* the loop is over: the pod lister prints the total, main returns
CliReturn ==
    /\ cli.pc = "print"
    /\ cli.i = cli.n
    /\ cli' = Exited([cli EXCEPT !.out = IF cli.prog = "pods"
                                         THEN Append(@, "total") ELSE @],
                     ExitOk)
    /\ UNCHANGED controllerVars

(* ------------------------------------------------------------------ *)
(* Reconcile: the decisions of the state machine                       *)
(* ------------------------------------------------------------------ *)

\* Result{}, nil / Result{}, err / Result{RequeueAfter: d}, nil
ResultOk == [err |-> FALSE, requeue |-> FALSE, after |-> 0]
ResultErr == [err |-> TRUE, requeue |-> FALSE, after |-> 0]
\* the variant that reports the wait as an error with a delay
ResultAfterAsErr(d) == [err |-> TRUE, requeue |-> FALSE, after |-> d]

\* the variant that asks for an immediate requeue instead of a delay
ResultAfterImmediate(d) == [err |-> FALSE, requeue |-> TRUE, after |-> 0]

ResultAfter(d) == [err |-> FALSE, requeue |-> FALSE, after |-> d]

\* the variant that reports a missing At as an error
AfterNotFoundErr == ResultErr

\* r.Get(instance) returned NotFound: "return and don't requeue"
AfterNotFound == ResultOk

\* the variant that takes a failed read of the At for a missing At
AfterReadErrIgnored == ResultOk

\* r.Get(instance) failed otherwise: "Error reading the object - requeue the
\* request"
AfterReadErr == ResultErr

\* r.Get(found) failed otherwise than NotFound: return Result{}, err
AfterPodGetErr == ResultErr

\* the variant that only logs a failed create
AfterCreateErrIgnored == ResultOk

\* r.Create(pod) failed, AlreadyExists included: return Result{}, err
AfterCreateErr == ResultErr

\* the variant that creates the pod with no owner reference
SetControllerReferenceNone(owner) == NoKey

\* controllerutil.SetControllerReference(instance, pod, r.Scheme): the owner
\* the pod names as its controller
SetControllerReference(owner) == owner

\* SetControllerReference failed: "requeue with error"
AfterOwnerRefErr == ResultErr

\* the variant that swallows the error of the status write
AfterUpdateErrIgnored == ResultOk

\* r.Status().Update returned an error: return reconcile.Result{}, err
AfterUpdateErr == ResultErr

\* the variant in which the status write is not tied to the version read
StaleNever(stored, read) == FALSE

\* r.Status().Update sends the object as read, resourceVersion included: the
\* write is refused when the stored object has changed since, in any part
Stale(stored, read) == stored.rv # read.rv

\* "If no phase set, default to pending"
DefaultPhase(phase) == IF phase = "" THEN PhasePending ELSE phase

\* the variant that treats only Succeeded as the end of the pod
IsTerminalSucceededOnly(podPhase) == podPhase = PodSucceeded

\* the variant that takes any pod it finds for a finished one
IsTerminalAlways(podPhase) == TRUE

\* found.Status.Phase == PodFailed || found.Status.Phase == PodSucceeded
IsTerminal(podPhase) == podPhase = PodFailed \/ podPhase = PodSucceeded

\* the variant that starts the command whatever the schedule says
NotYetNever(d) == FALSE

\* the variant that still waits when the schedule is exactly now
NotYetAtBoundary(d) == d >= 0

\* "if d > 0": not yet time to execute the command
NotYet(d) == d > 0

\* the variant that sends a finished pod's At back to PENDING
PhaseAfterPodPending == PhasePending

\* the phase set once the pod has terminated
PhaseAfterPod == PhaseDone

\* the variant in which DONE falls into the RUNNING case
SwitchCaseDoneRuns(phase) ==
    IF phase \in {PhasePending, PhaseRunning} THEN phase
    ELSE IF phase = PhaseDone THEN PhaseRunning ELSE "default"

\* the variant in which a DONE resource is scheduled afresh
SwitchCaseDoneRestarts(phase) ==
    IF phase \in {PhasePending, PhaseRunning} THEN phase
    ELSE IF phase = PhaseDone THEN PhasePending ELSE "default"

\* the variant whose default case is the PENDING case
SwitchCaseDefaultPending(phase) ==
    IF phase \in {PhasePending, PhaseRunning, PhaseDone} THEN phase
    ELSE PhasePending

\* switch instance.Status.Phase: the case taken
SwitchCase(phase) ==
    IF phase \in {PhasePending, PhaseRunning, PhaseDone} THEN phase
    ELSE "default"

\* the variant in which the pass that finds the schedule reached goes on to
\* the pod in that same pass
AfterDueSamePass == "podGet"

\* instance.Status.Phase = PhaseRunning ends case PENDING: the switch is left
\* and the next call of the pass is r.Status().Update
AfterDue == "update"

\* the variant that waits inside Reconcile: the pass keeps its worker and
\* looks at the clock again until the schedule is reached
AfterNotYetBlocks == "getAt"

\* the variant that stores the defaulted phase before it waits
AfterNotYetStores == "update"

\* d > 0: "Not yet time to execute the command": Reconcile returns at once
AfterNotYet == "ret"

\* From the object read to the first external call after it: the part of
\* Reconcile between r.Get(instance) and r.Get(found) / Status().Update.
\*   next = "ret"    : Reconcile returns res
\*   next = "podGet" : case RUNNING, about to read the pod
\*   next = "update" : case PENDING and it is time, phase set to RUNNING
AfterRead(obj, t) ==
    LET phase == DefaultPhase(obj.phase)
        c == SwitchCase(phase)
        tus == timeUntilSchedule(obj.schedule, t)
    IN  CASE c = PhasePending ->
               IF tus.err THEN [next |-> "ret", phase |-> phase, res |-> ResultErr]
               ELSE IF NotYet(tus.d)
                    THEN [next |-> AfterNotYet, phase |-> phase,
                          res |-> ResultAfter(tus.d)]
                    ELSE [next |-> AfterDue, phase |-> PhaseRunning, res |-> NoRes]
          [] c = PhaseRunning ->
               [next |-> "podGet", phase |-> phase, res |-> NoRes]
          [] c = PhaseDone ->
               [next |-> "ret", phase |-> phase, res |-> ResultOk]
          [] OTHER ->
               [next |-> "ret", phase |-> phase, res |-> ResultOk]

\* the variant that returns Result{}, nil as soon as the pod is created
AfterCreateReturns == "ret"

\* r.Create(pod) succeeded: "Pod launched"; the branch ends without a return,
\* the switch is left and the next call of the pass is r.Status().Update
AfterCreate == "update"

\* the variant that asks to be called again while the pod runs
AfterPodRunningPolls == [err |-> FALSE, requeue |-> TRUE, after |-> 0]

\* the pod is there and has not terminated: "Don't requeue: it will happen
\* automatically when pod status changes"
AfterPodRunning == ResultOk

\* the variant that creates the pod without looking at what Get found
AfterPodGetBlind(found) == "create"

\* After r.Get(found) succeeded or returned NotFound: what the RUNNING case does
AfterPodGet(found) ==
    IF ~found.exists THEN "create"
    ELSE IF IsTerminal(found.phase) THEN "done"
    ELSE "wait"

(* ------------------------------------------------------------------ *)
(* The work queue                                                      *)
(* ------------------------------------------------------------------ *)

\* the retry delays, in seconds: "1s, 2s, 4s, 8s... up to 5min"
BaseDelay == 1
MaxDelay == 300

RECURSIVE Pow2(_)
Pow2(n) == IF n = 0 THEN 1 ELSE 2 * Pow2(n - 1)

\* from this many failures on the delay stays MaxDelay
SatFailures == CHOOSE n \in 0..16 :
    /\ BaseDelay * Pow2(n) >= MaxDelay
    /\ \A m \in 0..(n - 1) : BaseDelay * Pow2(m) < MaxDelay

Min(a, b) == IF a < b THEN a ELSE b

\* the variant whose delay keeps doubling
BackoffUncapped(n) == BaseDelay * Pow2(n)

\* the delay of the next retry of a key that has failed n times in a row
Backoff(n) == Min(BaseDelay * Pow2(n), MaxDelay)

EmptyQueue ==
    [queue |-> <<>>, dirty |-> {}, processing |-> {},
     waiting |-> [k \in Keys |-> None], failures |-> [k \in Keys |-> 0]]

\* the variant that queues a key again while a delivery of it is in flight
QAddNoDefer(q, k) ==
    IF k \in q.dirty THEN q
    ELSE [q EXCEPT !.dirty = @ \cup {k}, !.queue = Append(@, k)]

\* Add(key): once per key until it is taken; deferred while it is in flight
QAdd(q, k) ==
    IF k \in q.dirty THEN q
    ELSE IF k \in q.processing THEN [q EXCEPT !.dirty = @ \cup {k}]
    ELSE [q EXCEPT !.dirty = @ \cup {k}, !.queue = Append(@, k)]

\* Get(): the head of the queue goes in flight
QGet(q) ==
    [q EXCEPT !.queue = Tail(@),
              !.processing = @ \cup {Head(q.queue)},
              !.dirty = @ \ {Head(q.queue)}]

\* the variant that forgets a key added while its delivery was in flight
QDoneDrops(q, k) == [q EXCEPT !.processing = @ \ {k}, !.dirty = @ \ {k}]

\* Done(key): the key may be delivered again, and is if it was added meanwhile
QDone(q, k) ==
    IF k \in q.dirty
    THEN [q EXCEPT !.processing = @ \ {k}, !.queue = Append(@, k)]
    ELSE [q EXCEPT !.processing = @ \ {k}]

\* the variant whose timer runs a second fast
QAddAfterEarly(q, k, d, t) ==
    IF d <= 0 THEN QAdd(q, k)
    ELSE IF q.waiting[k] # None /\ q.waiting[k] <= t + d - 1 THEN q
    ELSE [q EXCEPT !.waiting[k] = t + d - 1]

\* AddAfter(key, d) at clock reading t: eligible at t + d, the earliest wins
QAddAfter(q, k, d, t) ==
    IF d <= 0 THEN QAdd(q, k)
    ELSE IF q.waiting[k] # None /\ q.waiting[k] <= t + d THEN q
    ELSE [q EXCEPT !.waiting[k] = t + d]

\* AddRateLimited(key) at clock reading t
QAddRateLimited(q, k, t) ==
    [QAddAfter(q, k, Backoff(q.failures[k]), t)
        EXCEPT !.failures[k] = Min(q.failures[k] + 1, SatFailures)]

\* Forget(key)
QForget(q, k) == [q EXCEPT !.failures[k] = 0]

\* the variant of the controller that also watches the pods it owns
WatchedWithOwns == {"At", "Pod"}

\* SetupWithManager: For(&At{}) and nothing else
Watched == {"At"}

\* a change of an object of that kind, belonging to key k, reaches the queue
\* only when the controller watches the kind
Notify(q, kind, k) == IF kind \in Watched THEN QAdd(q, k) ELSE q

\* the variant that looks at the requested delay before the error
DispatchDelayFirst(q, k, r, t) ==
    LET q1 == IF r.after > 0 THEN QAddAfter(q, k, r.after, t)
              ELSE IF r.err THEN QAddRateLimited(q, k, t)
              ELSE IF r.requeue THEN QAdd(q, k)
              ELSE QForget(q, k)
    IN  QDone(q1, k)

\* the worker loop after Reconcile returned r for key k at clock reading t
Dispatch(q, k, r, t) ==
    LET q1 == IF r.err THEN QAddRateLimited(q, k, t)
              ELSE IF r.requeue THEN QAdd(q, k)
              ELSE IF r.after > 0 THEN QAddAfter(q, k, r.after, t)
              ELSE QForget(q, k)
    IN  QDone(q1, k)

(* ------------------------------------------------------------------ *)
(* History records                                                     *)
(* ------------------------------------------------------------------ *)

\* read:   "-" not yet | "fault" | "notfound" | "ok"
\* phase:  the stored phase the pass read
\* sched:  the instant of the schedule the pass read, None if it does not parse
\* due:    "-" | "err" | "future" | "due": how that schedule stood to the
\*         clock when a pass read phase unset or PENDING
\* owner:  "-" | "fault" | "set": SetControllerReference on the derived pod
\* podGet: "-" | "fault" | "absent" | the pod phase found
\* create: "-" | "fault" | "exists" | "ok"
\* write:  "-" | "fault" | "notfound" | "conflict" | "ok"
\* wrote:  the phase handed to the status write
NoLog ==
    [read |-> "-", phase |-> "", sched |-> None, due |-> "-", owner |-> "-",
     podGet |-> "-", create |-> "-", write |-> "-", wrote |-> ""]

NoPrev ==
    [valid |-> FALSE, err |-> FALSE, fault |-> FALSE, phase |-> "",
     podGet |-> "-", create |-> "-", after |-> ""]

\* what a change outside the controller leaves of quiet
Disturbed == [prev |-> FALSE, cur |-> FALSE]

Faulted(l) == "fault" \in {l.read, l.owner, l.podGet, l.create, l.write}
CreateCalls(x) == IF x = "-" THEN 0 ELSE 1

StoredPhase(k) == IF Live(k) THEN at[k].phase ELSE "gone"

(* ------------------------------------------------------------------ *)
(* Init                                                                *)
(* ------------------------------------------------------------------ *)

\* the controller has started, nothing is stored, no worker holds a key
Started ==
    /\ now = StartTime
    /\ at = [k \in Keys |-> NoAt]
    /\ pods = [n \in PodNames |-> NoPod]
    /\ wq = EmptyQueue
    /\ pc = [w \in Workers |-> "idle"]
    /\ wkey = [w \in Workers |-> NoKey]
    /\ inst = [w \in Workers |-> NoInst]
    /\ res = [w \in Workers |-> NoRes]
    /\ log = [w \in Workers |-> NoLog]
    /\ hist = [k \in Keys |-> <<>>]
    /\ creates = [k \in Keys |-> 0]
    /\ doneWrites = [k \in Keys |-> 0]
    /\ runSched = [k \in Keys |-> None]
    /\ prev = [k \in Keys |-> NoPrev]
    /\ quiet = [k \in Keys |-> Disturbed]
    /\ ctxDone = [w \in Workers |-> FALSE]

Init ==
    /\ Started
    /\ edits = 0
    /\ faults = 0
    /\ cli = NoCli
    /\ drv = NoDrv

workerVars == <<pc, wkey, inst, res, log, ctxDone>>
histVars == <<hist, creates, doneWrites, runSched>>

(* ------------------------------------------------------------------ *)
(* The environment                                                     *)
(* ------------------------------------------------------------------ *)

\* the user creates the At named k: kubectl apply
CreateAt(k, s) ==
    /\ at[k].state = "absent"
    /\ at' = [at EXCEPT ![k] = [state |-> "live", schedule |-> s, phase |-> "", rv |-> 1]]
    /\ hist' = [hist EXCEPT ![k] = <<"">>]
    /\ wq' = Notify(wq, "At", k)
    /\ quiet' = [quiet EXCEPT ![k] = Disturbed]
    /\ UNCHANGED <<cli, drv, now, pods, workerVars, creates, doneWrites, runSched, prev,
                   edits, faults>>

\* the user edits spec.schedule of the At named k
EditSpec(k, s) ==
    /\ Live(k)
    /\ edits < MaxEdits
    /\ s # at[k].schedule
    /\ at' = [at EXCEPT ![k].schedule = s, ![k].rv = @ + 1]
    /\ edits' = edits + 1
    /\ wq' = Notify(wq, "At", k)
    /\ quiet' = [quiet EXCEPT ![k] = Disturbed]
    /\ UNCHANGED <<cli, drv, now, pods, workerVars, histVars, prev, faults>>

\* the user deletes the At named k
DeleteAt(k) ==
    /\ Live(k)
    /\ at' = [at EXCEPT ![k] = GoneAt]
    /\ wq' = Notify(wq, "At", k)
    /\ quiet' = [quiet EXCEPT ![k] = Disturbed]
    /\ UNCHANGED <<cli, drv, now, pods, workerVars, histVars, prev, edits, faults>>

\* the garbage collector removes the pod whose owner is gone
CollectPod(k) ==
    LET n == PodFor[k].name
    IN  /\ at[k].state = "deleted"
        /\ pods[n].exists
        /\ pods[n].owner = k
        /\ pods' = [pods EXCEPT ![n] = NoPod]
        /\ wq' = Notify(wq, "Pod", k)
        /\ quiet' = [quiet EXCEPT ![k] = Disturbed]
        /\ UNCHANGED <<cli, drv, now, at, workerVars, histVars, prev, edits, faults>>

\* the phases a pod can move to
PodSteps(p) ==
    CASE p = PodPending -> {PodRunning, PodFailed}
      [] p = PodRunning -> {PodSucceeded, PodFailed}
      [] OTHER -> {}

\* the kubelet moves the pod of k to its next phase
PodProgress(k, p) ==
    LET n == PodFor[k].name
    IN  /\ pods[n].exists
        /\ p \in PodSteps(pods[n].phase)
        /\ pods' = [pods EXCEPT ![n].phase = p]
        /\ wq' = Notify(wq, "Pod", pods[n].owner)
        /\ quiet' = [quiet EXCEPT ![k] = Disturbed]
        /\ UNCHANGED <<cli, drv, now, at, workerVars, histVars, prev, edits, faults>>

\* somebody else creates a pod that has the derived name of k's pod and
\* no owner
ForeignPod(k) ==
    LET n == PodFor[k].name
    IN  /\ ~pods[n].exists
        /\ pods' = [pods EXCEPT ![n] =
              [exists |-> TRUE, phase |-> PodPending, owner |-> NoKey]]
        /\ quiet' = [quiet EXCEPT ![k] = Disturbed]
        /\ UNCHANGED <<cli, drv, now, at, wq, workerVars, histVars, prev, edits, faults>>

\* another client writes a status.phase of its own on the At named k
ForeignStatus(k) ==
    /\ Live(k)
    /\ at[k].phase # PhaseOther
    /\ at' = [at EXCEPT ![k].phase = PhaseOther, ![k].rv = @ + 1]
    /\ hist' = [hist EXCEPT ![k] = Append(@, PhaseOther)]
    /\ wq' = Notify(wq, "At", k)
    /\ quiet' = [quiet EXCEPT ![k] = Disturbed]
    /\ UNCHANGED <<cli, drv, now, pods, workerVars, creates, doneWrites, runSched,
                   prev, edits, faults>>

\* a second passes
Tick ==
    /\ now < StartTime + MaxTicks
    /\ now' = now + 1
    /\ quiet' = [k \in Keys |-> Disturbed]
    /\ UNCHANGED <<cli, drv, at, pods, wq, workerVars, histVars, prev, edits, faults>>

\* a second passes while a scheduled follow-up is still to come: the clock
\* of the progress specification does not stop under a pending timer
TickForTimer ==
    /\ now >= StartTime + MaxTicks
    /\ \E k \in Keys : wq.waiting[k] > now
    /\ now' = now + 1
    /\ quiet' = [k \in Keys |-> Disturbed]
    /\ UNCHANGED <<cli, drv, at, pods, wq, workerVars, histVars, prev, edits, faults>>

\* the timer of the queue: a waiting key whose time has come is added
TimerFires(k) ==
    /\ wq.waiting[k] # None
    /\ wq.waiting[k] <= now
    /\ wq' = QAdd([wq EXCEPT !.waiting[k] = None], k)
    /\ UNCHANGED <<cli, drv, now, at, pods, workerVars, histVars, prev, quiet, edits, faults>>

(* ------------------------------------------------------------------ *)
(* The worker loop and Reconcile, one step per external call           *)
(* ------------------------------------------------------------------ *)

\* the variant that hands the ctx of Reconcile to the client calls
CallContextCtx == "ctx"

\* the context every client call of Reconcile is made with: context.TODO()
CallContext == "TODO"

\* a client call made with the ctx of Reconcile fails once that ctx is done
Expired(w) == CallContext = "ctx" /\ ctxDone[w]

\* an external call may fail with a transient error
FaultAllowed == faults < MaxFaults

\* how the schedule read stands to the clock, for a pass in the PENDING case
Standing(obj, t) ==
    IF obj.phase \notin {"", PhasePending} THEN "-"
    ELSE IF Parse(obj.schedule).err THEN "err"
    ELSE IF Parse(obj.schedule).t > t THEN "future"
    ELSE "due"

SchedInstant(obj) ==
    IF Parse(obj.schedule).err THEN None ELSE Parse(obj.schedule).t

\* a worker takes the next key off the queue; idle workers are
\* interchangeable, the one with the lowest number takes it
WGet(w) ==
    /\ pc[w] = "idle"
    /\ \A v \in Workers : v < w => pc[v] # "idle"
    /\ wq.queue # <<>>
    /\ wkey' = [wkey EXCEPT ![w] = Head(wq.queue)]
    /\ wq' = QGet(wq)
    /\ pc' = [pc EXCEPT ![w] = "getAt"]
    /\ UNCHANGED <<cli, drv, now, at, pods, inst, res, log, histVars, prev, quiet, ctxDone,
                   edits, faults>>

\* Reconcile from its entry to its first external call after r.Get(instance)
WReadAt(w) ==
    LET k == wkey[w]
        nx == AfterRead(at[k], now)
    IN  /\ pc[w] = "getAt"
        /\ \/ /\ Expired(w)
              /\ res' = [res EXCEPT ![w] = AfterReadErr]
              /\ pc' = [pc EXCEPT ![w] = "ret"]
              /\ log' = [log EXCEPT ![w].read = "fault"]
              /\ UNCHANGED <<inst, faults>>
           \/ /\ ~Expired(w)
              /\ \/ /\ FaultAllowed
                    /\ faults' = faults + 1
                    /\ res' = [res EXCEPT ![w] = AfterReadErr]
                    /\ pc' = [pc EXCEPT ![w] = "ret"]
                    /\ log' = [log EXCEPT ![w].read = "fault"]
                    /\ UNCHANGED inst
                 \/ /\ ~Live(k)
                    /\ res' = [res EXCEPT ![w] = AfterNotFound]
                    /\ pc' = [pc EXCEPT ![w] = "ret"]
                    /\ log' = [log EXCEPT ![w].read = "notfound"]
                    /\ UNCHANGED <<inst, faults>>
                 \/ /\ Live(k)
                    /\ inst' = [inst EXCEPT ![w] =
                          [schedule |-> at[k].schedule, phase |-> nx.phase,
                           rv |-> at[k].rv]]
                    /\ res' = [res EXCEPT ![w] = nx.res]
                    /\ pc' = [pc EXCEPT ![w] = nx.next]
                    /\ log' = [log EXCEPT ![w].read = "ok",
                                          ![w].phase = at[k].phase,
                                          ![w].sched = SchedInstant(at[k]),
                                          ![w].due = Standing(at[k], now),
                                          ![w].owner = IF nx.next = "podGet"
                                                       THEN "set" ELSE "-"]
                    /\ UNCHANGED faults
                 \/ /\ Live(k)
                    /\ nx.next = "podGet"
                    /\ FaultAllowed
                    /\ faults' = faults + 1
                    /\ inst' = [inst EXCEPT ![w] =
                          [schedule |-> at[k].schedule, phase |-> nx.phase,
                           rv |-> at[k].rv]]
                    /\ res' = [res EXCEPT ![w] = AfterOwnerRefErr]
                    /\ pc' = [pc EXCEPT ![w] = "ret"]
                    /\ log' = [log EXCEPT ![w].read = "ok",
                                          ![w].phase = at[k].phase,
                                          ![w].sched = SchedInstant(at[k]),
                                          ![w].due = Standing(at[k], now),
                                          ![w].owner = "fault"]
        /\ quiet' = [quiet EXCEPT ![k].cur = TRUE]
        /\ UNCHANGED <<cli, drv, now, at, pods, wq, wkey, histVars, prev, edits, ctxDone>>

\* case RUNNING: r.Get(found) and the branch it selects
WPodGet(w) ==
    LET k == wkey[w]
        found == pods[PodFor[k].name]
        c == AfterPodGet(found)
        seen == IF found.exists THEN found.phase ELSE "absent"
    IN  /\ pc[w] = "podGet"
        /\ \/ /\ Expired(w)
              /\ res' = [res EXCEPT ![w] = AfterPodGetErr]
              /\ pc' = [pc EXCEPT ![w] = "ret"]
              /\ log' = [log EXCEPT ![w].podGet = "fault"]
              /\ UNCHANGED <<inst, faults>>
           \/ /\ ~Expired(w)
              /\ \/ /\ FaultAllowed
                    /\ faults' = faults + 1
                    /\ res' = [res EXCEPT ![w] = AfterPodGetErr]
                    /\ pc' = [pc EXCEPT ![w] = "ret"]
                    /\ log' = [log EXCEPT ![w].podGet = "fault"]
                    /\ UNCHANGED inst
                 \/ /\ c = "create"
                    /\ pc' = [pc EXCEPT ![w] = "podCreate"]
                    /\ log' = [log EXCEPT ![w].podGet = seen]
                    /\ UNCHANGED <<inst, res, faults>>
                 \/ /\ c = "done"
                    /\ inst' = [inst EXCEPT ![w].phase = PhaseAfterPod]
                    /\ pc' = [pc EXCEPT ![w] = "update"]
                    /\ log' = [log EXCEPT ![w].podGet = seen]
                    /\ UNCHANGED <<res, faults>>
                 \/ /\ c = "wait"
                    /\ res' = [res EXCEPT ![w] = AfterPodRunning]
                    /\ pc' = [pc EXCEPT ![w] = "ret"]
                    /\ log' = [log EXCEPT ![w].podGet = seen]
                    /\ UNCHANGED <<inst, faults>>
        /\ UNCHANGED <<cli, drv, now, at, pods, wq, wkey, histVars, prev, quiet, edits,
                       ctxDone>>

\* case RUNNING, pod not found: r.Create(pod)
WPodCreate(w) ==
    LET k == wkey[w]
        n == PodFor[k].name
    IN  /\ pc[w] = "podCreate"
        /\ \/ /\ Expired(w)
              /\ res' = [res EXCEPT ![w] = AfterCreateErr]
              /\ pc' = [pc EXCEPT ![w] = "ret"]
              /\ log' = [log EXCEPT ![w].create = "fault"]
              /\ UNCHANGED <<pods, wq, creates, faults>>
           \/ /\ ~Expired(w)
              /\ \/ /\ FaultAllowed
                    /\ faults' = faults + 1
                    /\ res' = [res EXCEPT ![w] = AfterCreateErr]
                    /\ pc' = [pc EXCEPT ![w] = "ret"]
                    /\ log' = [log EXCEPT ![w].create = "fault"]
                    /\ UNCHANGED <<pods, wq, creates>>
                 \/ /\ pods[n].exists
                    /\ res' = [res EXCEPT ![w] = AfterCreateErr]
                    /\ pc' = [pc EXCEPT ![w] = "ret"]
                    /\ log' = [log EXCEPT ![w].create = "exists"]
                    /\ UNCHANGED <<pods, wq, creates, faults>>
                 \/ /\ ~pods[n].exists
                    /\ pods' = [pods EXCEPT ![n] =
                          [exists |-> TRUE, phase |-> PodPending,
                           owner |-> SetControllerReference(k)]]
                    /\ wq' = Notify(wq, "Pod", k)
                    /\ creates' = [creates EXCEPT ![k] = IF Live(k) THEN @ + 1 ELSE @]
                    /\ pc' = [pc EXCEPT ![w] = AfterCreate]
                    /\ log' = [log EXCEPT ![w].create = "ok"]
                    /\ UNCHANGED <<res, faults>>
        /\ UNCHANGED <<cli, drv, now, at, wkey, inst, hist, doneWrites, runSched, prev, ctxDone,
                       quiet, edits>>

\* r.Status().Update(instance): a write conditional on the version read
WUpdate(w) ==
    LET k == wkey[w]
        changed == inst[w].phase # at[k].phase
    IN  /\ pc[w] = "update"
        /\ pc' = [pc EXCEPT ![w] = "ret"]
        /\ \/ /\ Expired(w)
              /\ res' = [res EXCEPT ![w] = AfterUpdateErr]
              /\ log' = [log EXCEPT ![w].write = "fault", ![w].wrote = inst[w].phase]
              /\ UNCHANGED <<at, wq, histVars, faults>>
           \/ /\ ~Expired(w)
              /\ \/ /\ FaultAllowed
                    /\ faults' = faults + 1
                    /\ res' = [res EXCEPT ![w] = AfterUpdateErr]
                    /\ log' = [log EXCEPT ![w].write = "fault", ![w].wrote = inst[w].phase]
                    /\ UNCHANGED <<at, wq, histVars>>
                 \/ /\ ~Live(k)
                    /\ res' = [res EXCEPT ![w] = AfterUpdateErr]
                    /\ log' = [log EXCEPT ![w].write = "notfound", ![w].wrote = inst[w].phase]
                    /\ UNCHANGED <<at, wq, histVars, faults>>
                 \/ /\ Live(k)
                    /\ Stale(at[k], inst[w])
                    /\ res' = [res EXCEPT ![w] = AfterUpdateErr]
                    /\ log' = [log EXCEPT ![w].write = "conflict", ![w].wrote = inst[w].phase]
                    /\ UNCHANGED <<at, wq, histVars, faults>>
                 \/ /\ Live(k)
                    /\ ~Stale(at[k], inst[w])
                    /\ res' = [res EXCEPT ![w] = ResultOk]
                    /\ log' = [log EXCEPT ![w].write = "ok", ![w].wrote = inst[w].phase]
                    /\ at' = IF changed
                             THEN [at EXCEPT ![k].phase = inst[w].phase, ![k].rv = @ + 1]
                             ELSE at
                    /\ wq' = IF changed THEN Notify(wq, "At", k) ELSE wq
                    /\ hist' = IF changed
                               THEN [hist EXCEPT ![k] = Append(@, inst[w].phase)]
                               ELSE hist
                    /\ doneWrites' = IF changed /\ inst[w].phase = PhaseDone
                                     THEN [doneWrites EXCEPT ![k] = @ + 1]
                                     ELSE doneWrites
                    /\ runSched' = IF changed /\ inst[w].phase = PhaseRunning
                                   THEN [runSched EXCEPT ![k] = log[w].sched]
                                   ELSE runSched
                    /\ UNCHANGED <<creates, faults>>
        /\ UNCHANGED <<cli, drv, now, pods, wkey, inst, prev, quiet, edits, ctxDone>>

\* Reconcile has returned: requeue as the result says, then Done(key)
WFinish(w) ==
    LET k == wkey[w]
    IN  /\ pc[w] = "ret"
        /\ wq' = Dispatch(wq, k, res[w], now)
        /\ prev' = [prev EXCEPT ![k] =
              [valid |-> TRUE, err |-> res[w].err, fault |-> Faulted(log[w]),
               phase |-> log[w].phase, podGet |-> log[w].podGet,
               create |-> log[w].create, after |-> StoredPhase(k)]]
        /\ quiet' = [quiet EXCEPT ![k] = [prev |-> quiet[k].cur, cur |-> FALSE]]
        /\ pc' = [pc EXCEPT ![w] = "idle"]
        /\ wkey' = [wkey EXCEPT ![w] = NoKey]
        /\ inst' = [inst EXCEPT ![w] = NoInst]
        /\ res' = [res EXCEPT ![w] = NoRes]
        /\ log' = [log EXCEPT ![w] = NoLog]
        /\ ctxDone' = [ctxDone EXCEPT ![w] = FALSE]
        /\ UNCHANGED <<cli, drv, now, at, pods, histVars, edits, faults>>

(* ------------------------------------------------------------------ *)
(* Specification                                                       *)
(* ------------------------------------------------------------------ *)

Next ==
    \/ \E k \in Created, s \in Schedules : CreateAt(k, s)
    \/ \E k \in Keys, s \in Schedules : EditSpec(k, s)
    \/ \E k \in Keys : DeleteAt(k)
    \/ \E k \in Keys : CollectPod(k)
    \/ \E k \in Keys, p \in {PodRunning, PodSucceeded, PodFailed} : PodProgress(k, p)
    \/ Tick
    \/ \E k \in Keys : TimerFires(k)
    \/ \E w \in Workers : WGet(w)
    \/ \E w \in Workers : WReadAt(w)
    \/ \E w \in Workers : WPodGet(w)
    \/ \E w \in Workers : WPodCreate(w)
    \/ \E w \in Workers : WUpdate(w)
    \/ \E w \in Workers : WFinish(w)

Spec == Init /\ [][Next]_vars

(* ------------------------------------------------------------------ *)
(* Progress: the same controller with no user edits, no deletion and   *)
(* no failing calls, every step of clock, kubelet, timer and workers   *)
(* taken eventually                                                    *)
(* ------------------------------------------------------------------ *)

InitLive ==
    /\ Started
    /\ edits = MaxEdits
    /\ faults = MaxFaults
    /\ cli = NoCli
    /\ drv = NoDrv

KubeletStep(k) == \E p \in {PodRunning, PodSucceeded, PodFailed} : PodProgress(k, p)

NextLive ==
    \/ \E k \in Created, s \in WellFormed : CreateAt(k, s)
    \/ \E k \in Keys : KubeletStep(k)
    \/ Tick
    \/ TickForTimer
    \/ \E k \in Keys : TimerFires(k)
    \/ \E w \in Workers : WGet(w)
    \/ \E w \in Workers : WReadAt(w)
    \/ \E w \in Workers : WPodGet(w)
    \/ \E w \in Workers : WPodCreate(w)
    \/ \E w \in Workers : WUpdate(w)
    \/ \E w \in Workers : WFinish(w)

Fairness ==
    /\ WF_vars(Tick)
    /\ WF_vars(TickForTimer)
    /\ \A k \in Keys : WF_vars(KubeletStep(k))
    /\ \A k \in Keys : WF_vars(TimerFires(k))
    /\ \A w \in Workers : WF_vars(WGet(w))
    /\ \A w \in Workers : WF_vars(WReadAt(w))
    /\ \A w \in Workers : WF_vars(WPodGet(w))
    /\ \A w \in Workers : WF_vars(WPodCreate(w))
    /\ \A w \in Workers : WF_vars(WUpdate(w))
    /\ \A w \in Workers : WF_vars(WFinish(w))

SpecLive == InitLive /\ [][NextLive]_vars /\ Fairness

(* ------------------------------------------------------------------ *)
(* Wake-ups: the controller under user edits, with no failing calls    *)
(* and no deletion, every enabled worker step taken eventually         *)
(* ------------------------------------------------------------------ *)

InitWake ==
    /\ Started
    /\ edits = 0
    /\ faults = MaxFaults
    /\ cli = NoCli
    /\ drv = NoDrv

NextWake ==
    \/ \E k \in Created, s \in Schedules : CreateAt(k, s)
    \/ \E k \in Keys, s \in Schedules : EditSpec(k, s)
    \/ \E k \in Keys : KubeletStep(k)
    \/ Tick
    \/ \E k \in Keys : TimerFires(k)
    \/ \E w \in Workers : WGet(w)
    \/ \E w \in Workers : WReadAt(w)
    \/ \E w \in Workers : WPodGet(w)
    \/ \E w \in Workers : WPodCreate(w)
    \/ \E w \in Workers : WUpdate(w)
    \/ \E w \in Workers : WFinish(w)

WorkerFairness ==
    \A w \in Workers :
        /\ WF_vars(WGet(w))
        /\ WF_vars(WReadAt(w))
        /\ WF_vars(WPodGet(w))
        /\ WF_vars(WPodCreate(w))
        /\ WF_vars(WUpdate(w))
        /\ WF_vars(WFinish(w))

SpecWake == InitWake /\ [][NextWake]_vars /\ WorkerFairness

(* ------------------------------------------------------------------ *)
(* Deadlines: the controller with no edits, deletions or failing       *)
(* calls, whose caller may cancel the ctx of a pass at any moment      *)
(* ------------------------------------------------------------------ *)

\* the caller's deadline for the pass of worker w passes, or it cancels
CancelCtx(w) ==
    /\ pc[w] # "idle"
    /\ ~ctxDone[w]
    /\ ctxDone' = [ctxDone EXCEPT ![w] = TRUE]
    /\ UNCHANGED <<cli, drv, now, at, pods, wq, pc, wkey, inst, res, log, histVars, prev,
                   quiet, edits, faults>>

NextCtx ==
    \/ \E k \in Created, s \in WellFormed : CreateAt(k, s)
    \/ \E k \in Keys : KubeletStep(k)
    \/ Tick
    \/ \E k \in Keys : TimerFires(k)
    \/ \E w \in Workers : CancelCtx(w)
    \/ \E w \in Workers : WGet(w)
    \/ \E w \in Workers : WReadAt(w)
    \/ \E w \in Workers : WPodGet(w)
    \/ \E w \in Workers : WPodCreate(w)
    \/ \E w \in Workers : WUpdate(w)
    \/ \E w \in Workers : WFinish(w)

SpecCtx == InitLive /\ [][NextCtx]_vars

(* ------------------------------------------------------------------ *)
(* Two resources, one worker: the controller with no edits, deletions  *)
(* or failing calls, MaxConcurrentReconciles left at its default of 1  *)
(* ------------------------------------------------------------------ *)

\* the only worker loop of a controller with the default concurrency
Single == {1}

NextPair ==
    \/ \E k \in Keys, s \in WellFormed : CreateAt(k, s)
    \/ \E k \in Keys : KubeletStep(k)
    \/ Tick
    \/ \E k \in Keys : TimerFires(k)
    \/ \E w \in Single : WGet(w)
    \/ \E w \in Single : WReadAt(w)
    \/ \E w \in Single : WPodGet(w)
    \/ \E w \in Single : WPodCreate(w)
    \/ \E w \in Single : WUpdate(w)
    \/ \E w \in Single : WFinish(w)

SpecPair == InitLive /\ [][NextPair]_vars

(* ------------------------------------------------------------------ *)
(* Retries: the controller observed from the moment the retry timer of *)
(* a resource whose schedule does not parse has fired, after any       *)
(* number of failed passes in a row; the user may correct the schedule *)
(* ------------------------------------------------------------------ *)

\* the resource exists as created, its key is back on the queue and has
\* failed n times since its last success
InitBackoff ==
    \E k \in Created, s \in Malformed, n \in 0..SatFailures :
        /\ now = StartTime
        /\ at = [j \in Keys |-> IF j = k
                   THEN [state |-> "live", schedule |-> s, phase |-> "", rv |-> 1]
                   ELSE NoAt]
        /\ pods = [p \in PodNames |-> NoPod]
        /\ wq = [QAdd(EmptyQueue, k) EXCEPT !.failures[k] = n]
        /\ pc = [w \in Workers |-> "idle"]
        /\ wkey = [w \in Workers |-> NoKey]
        /\ inst = [w \in Workers |-> NoInst]
        /\ res = [w \in Workers |-> NoRes]
        /\ log = [w \in Workers |-> NoLog]
        /\ hist = [j \in Keys |-> IF j = k THEN <<"">> ELSE <<>>]
        /\ creates = [j \in Keys |-> 0]
        /\ doneWrites = [j \in Keys |-> 0]
        /\ runSched = [j \in Keys |-> None]
        /\ prev = [j \in Keys |-> NoPrev]
        /\ quiet = [j \in Keys |-> Disturbed]
        /\ ctxDone = [w \in Workers |-> FALSE]
        /\ edits = 0
        /\ faults = 0
        /\ cli = NoCli
        /\ drv = NoDrv

NextBackoff ==
    \/ \E k \in Keys, s \in Schedules : EditSpec(k, s)
    \/ \E k \in Keys : KubeletStep(k)
    \/ Tick
    \/ \E k \in Keys : TimerFires(k)
    \/ \E w \in Workers : WGet(w)
    \/ \E w \in Workers : WReadAt(w)
    \/ \E w \in Workers : WPodGet(w)
    \/ \E w \in Workers : WPodCreate(w)
    \/ \E w \in Workers : WUpdate(w)
    \/ \E w \in Workers : WFinish(w)

SpecBackoff == InitBackoff /\ [][NextBackoff]_vars

(* ------------------------------------------------------------------ *)
(* A run of a listing program                                          *)
(* ------------------------------------------------------------------ *)

InitCli ==
    /\ Started
    /\ edits = 0
    /\ faults = 0
    /\ cli \in CliStarts
    /\ drv = NoDrv

NextCli ==
    \/ CliBuildConfig
    \/ CliNewForConfig
    \/ CliList
    \/ CliPrintItem
    \/ CliReturn

SpecCli == InitCli /\ [][NextCli]_vars

(* ------------------------------------------------------------------ *)
(* Foreign pods: the controller with failing calls but no edits and no *)
(* deletions, in a namespace where others create pods too              *)
(* ------------------------------------------------------------------ *)

InitForeign ==
    /\ Started
    /\ edits = MaxEdits
    /\ faults = 0
    /\ cli = NoCli
    /\ drv = NoDrv

NextForeign ==
    \/ \E k \in Created, s \in WellFormed : CreateAt(k, s)
    \/ \E k \in Created : ForeignPod(k)
    \/ \E k \in Keys : KubeletStep(k)
    \/ Tick
    \/ \E k \in Keys : TimerFires(k)
    \/ \E w \in Workers : WGet(w)
    \/ \E w \in Workers : WReadAt(w)
    \/ \E w \in Workers : WPodGet(w)
    \/ \E w \in Workers : WPodCreate(w)
    \/ \E w \in Workers : WUpdate(w)
    \/ \E w \in Workers : WFinish(w)

SpecForeign == InitForeign /\ [][NextForeign]_vars

(* ------------------------------------------------------------------ *)
(* newPodForCR applied to two At objects                               *)
(* ------------------------------------------------------------------ *)

InitDerive ==
    /\ Started
    /\ edits = 0
    /\ faults = 0
    /\ cli = NoCli
    /\ \E c1 \in Crs, c2 \in Crs :
          drv = [cr |-> <<c1, c2>>, pod |-> <<NotDerived, NotDerived>>]

NextDerive == \E i \in 1..2 : Derive(i)

SpecDerive == InitDerive /\ [][NextDerive]_vars

(* ------------------------------------------------------------------ *)
(* Deletion: the controller with no edits and no failing calls, the    *)
(* user free to delete the resource at any moment, every step of       *)
(* clock, kubelet, timer and workers taken eventually                  *)
(* ------------------------------------------------------------------ *)

NextDelete ==
    \/ \E k \in Created, s \in WellFormed : CreateAt(k, s)
    \/ \E k \in Keys : DeleteAt(k)
    \/ \E k \in Keys : CollectPod(k)
    \/ \E k \in Keys : KubeletStep(k)
    \/ Tick
    \/ TickForTimer
    \/ \E k \in Keys : TimerFires(k)
    \/ \E w \in Workers : WGet(w)
    \/ \E w \in Workers : WReadAt(w)
    \/ \E w \in Workers : WPodGet(w)
    \/ \E w \in Workers : WPodCreate(w)
    \/ \E w \in Workers : WUpdate(w)
    \/ \E w \in Workers : WFinish(w)

SpecDelete == InitLive /\ [][NextDelete]_vars /\ Fairness

(* ------------------------------------------------------------------ *)
(* Foreign status: the controller with no edits, deletions or failing  *)
(* calls, another client free to write a phase of its own              *)
(* ------------------------------------------------------------------ *)

NextOther ==
    \/ \E k \in Created, s \in WellFormed : CreateAt(k, s)
    \/ \E k \in Keys : ForeignStatus(k)
    \/ \E k \in Keys : KubeletStep(k)
    \/ Tick
    \/ \E k \in Keys : TimerFires(k)
    \/ \E w \in Workers : WGet(w)
    \/ \E w \in Workers : WReadAt(w)
    \/ \E w \in Workers : WPodGet(w)
    \/ \E w \in Workers : WPodCreate(w)
    \/ \E w \in Workers : WUpdate(w)
    \/ \E w \in Workers : WFinish(w)

SpecOther == InitLive /\ [][NextOther]_vars

(* ------------------------------------------------------------------ *)
(* Properties                                                          *)
(* ------------------------------------------------------------------ *)

RECURSIVE IsSubseq(_, _)
IsSubseq(s, t) ==
    IF s = <<>> THEN TRUE
    ELSE IF t = <<>> THEN FALSE
    ELSE IF Head(s) = Head(t) THEN IsSubseq(Tail(s), Tail(t))
    ELSE IsSubseq(s, Tail(t))

PodOf(k) == pods[PodFor[k].name]
Returning(w) == pc[w] = "ret"

\* C1: the values the stored status.phase of a resource takes, in order, are a
\* subsequence of <<unset, PENDING, RUNNING, DONE>>: no status write moves the
\* phase backward and DONE, once stored, is never replaced.
C1_MonotonicPhase == \A k \in Keys : IsSubseq(hist[k], PhaseOrder)

C1_Witness == \E k \in Keys : hist[k] = <<"", PhaseRunning, PhaseDone>>

\* C2 as stated: whenever the pod of a resource exists, the resource's
\* spec.schedule parses and the clock has reached it.
C2_Original ==
    \A k \in Keys :
        (Live(k) /\ PodOf(k).exists) =>
            /\ ~Parse(at[k].schedule).err
            /\ now >= Parse(at[k].schedule).t

\* C2 (amended): a pod create is issued only by a pass that read stored phase
\* RUNNING; RUNNING is stored only by a pass that read a schedule the clock had
\* reached; hence whenever the pod exists the clock has reached the schedule
\* under which RUNNING was stored, which is the current spec.schedule as long
\* as the user has not edited the spec.
C2_NotBeforeSchedule ==
    /\ \A w \in Workers : pc[w] = "podCreate" => log[w].phase = PhaseRunning
    /\ \A w \in Workers :
          (Returning(w) /\ log[w].write = "ok" /\ log[w].wrote = PhaseRunning
              /\ log[w].phase # PhaseRunning) => log[w].due = "due"
    /\ \A k \in Keys :
          PodOf(k).exists =>
              /\ runSched[k] # None
              /\ now >= runSched[k]
              /\ (Live(k) /\ edits = 0) =>
                    /\ ~Parse(at[k].schedule).err
                    /\ Parse(at[k].schedule).t = runSched[k]

C2_Witness ==
    \E k \in Keys :
        /\ Live(k) /\ PodOf(k).exists /\ edits = 0
        /\ at[k].schedule = SchedLater
        /\ now >= Parse(at[k].schedule).t

\* C3: when a pass of Reconcile returned without error and nothing outside
\* the controller changed from the moment it read the At until the next pass
\* of the same key returns, that next pass leaves the stored phase as the
\* first left it and the two passes together issue at most one create.
C3_Idempotent ==
    \A w \in Workers :
        (Returning(w) /\ prev[wkey[w]].valid /\ ~prev[wkey[w]].err
            /\ quiet[wkey[w]].prev) =>
            /\ StoredPhase(wkey[w]) = prev[wkey[w]].after
            /\ CreateCalls(prev[wkey[w]].create) + CreateCalls(log[w].create) <= 1

C3_Witness ==
    \E w \in Workers :
        /\ Returning(w) /\ prev[wkey[w]].valid /\ ~prev[wkey[w]].err
        /\ quiet[wkey[w]].prev
        /\ prev[wkey[w]].create = "ok"
        /\ log[w].podGet = PodPending

\* C4 as stated: a pass that read phase unset or PENDING with the schedule
\* reached hands RUNNING to the status write and attempts the pod create in
\* that same pass.
C4_Original ==
    \A w \in Workers :
        (Returning(w) /\ log[w].due = "due") =>
            /\ log[w].wrote = PhaseRunning
            /\ log[w].create # "-"

\* C4 (amended): a pass that read phase unset or PENDING with the schedule
\* reached hands RUNNING to the status write (no PENDING is stored first) and
\* performs no pod operation; when the write succeeds the change of the At
\* puts the key back on the queue, so the create is attempted by the next
\* pass of the key without any outside event.
C4_OverdueSchedule ==
    \A w \in Workers :
        (Returning(w) /\ log[w].due = "due") =>
            /\ log[w].write # "-"
            /\ log[w].wrote = PhaseRunning
            /\ log[w].podGet = "-"
            /\ log[w].create = "-"
            /\ log[w].write = "ok" => wkey[w] \in wq.dirty

C4_Witness ==
    \E w \in Workers :
        /\ Returning(w) /\ log[w].due = "due" /\ log[w].write = "ok"
        /\ log[w].phase = ""
        /\ now > log[w].sched

\* C5: whenever a pod owned by an At changes state, the key of that At is
\* delivered to the work queue.
C5_PodChangeNotifies ==
    [][\A k \in Keys :
          (PodOf(k).exists /\ PodOf(k).owner = k /\ PodOf(k)' # PodOf(k))
              => k \in wq'.dirty]_vars

\* C6: a resource with a well-formed schedule eventually has phase DONE
\* stored, given that the clock, the kubelet, the timer and the workers keep
\* taking their steps and no call fails.
C6_Progress ==
    \A k \in Keys : Live(k) ~> (Live(k) /\ at[k].phase = PhaseDone)

\* C7: of two successive passes of a key that both read stored phase RUNNING,
\* the first finding no pod, with the At still there when the second returns
\* and no call failing transiently, exactly one issues a create.
C7_CreateIfAbsent ==
    \A w \in Workers :
        (Returning(w) /\ Live(wkey[w]) /\ prev[wkey[w]].valid
            /\ prev[wkey[w]].phase = PhaseRunning
            /\ prev[wkey[w]].podGet = "absent"
            /\ ~prev[wkey[w]].fault
            /\ log[w].read = "ok" /\ log[w].phase = PhaseRunning
            /\ ~Faulted(log[w])) =>
            CreateCalls(prev[wkey[w]].create) + CreateCalls(log[w].create) = 1

C7_Witness ==
    \E w \in Workers :
        /\ Returning(w) /\ Live(wkey[w]) /\ prev[wkey[w]].valid
        /\ prev[wkey[w]].phase = PhaseRunning
        /\ prev[wkey[w]].podGet = "absent"
        /\ prev[wkey[w]].create = "ok"
        /\ log[w].phase = PhaseRunning
        /\ log[w].podGet \in {PodPending, PodRunning}
        /\ log[w].create = "-"

\* C8: while its At exists the pod is created at most once; no create is
\* issued while the pod exists; and no step of a worker changes or removes an
\* existing pod.
C8_CreatedOnce ==
    [][/\ \A k \in Keys : creates'[k] <= 1
       /\ \A w \in Workers : log'[w].create # "exists"
       /\ pc' # pc => \A n \in PodNames : pods[n].exists => pods'[n] = pods[n]]_vars

C8_Witness ==
    \E w \in Workers :
        /\ Returning(w) /\ creates[wkey[w]] = 1
        /\ log[w].podGet \in {PodSucceeded, PodFailed}

\* C9: a resource moves to DONE at most once; the pass that saw its pod
\* Succeeded or Failed and whose status write succeeded is the one that made
\* that move; and once DONE is stored no pass reads or creates the pod.
C9_TerminalToDone ==
    /\ \A k \in Keys : doneWrites[k] <= 1
    /\ \A w \in Workers :
          (Returning(w) /\ log[w].podGet \in {PodSucceeded, PodFailed}
              /\ log[w].write = "ok") =>
              /\ log[w].wrote = PhaseDone
              /\ doneWrites[wkey[w]] = 1
              /\ Live(wkey[w]) => at[wkey[w]].phase = PhaseDone
    /\ \A w \in Workers :
          (wkey[w] # NoKey /\ Live(wkey[w]) /\ at[wkey[w]].phase = PhaseDone) =>
              /\ pc[w] \notin {"podGet", "podCreate"}
              /\ log[w].phase = PhaseDone =>
                    (log[w].podGet = "-" /\ log[w].create = "-")

C9_Witness ==
    \E w \in Workers :
        /\ Returning(w) /\ log[w].read = "ok" /\ log[w].phase = PhaseDone
        /\ doneWrites[wkey[w]] = 1

\* C10 as stated: every pass that read a resource whose schedule does not
\* parse returns an error and attempts no status write.
C10_Original ==
    \A w \in Workers :
        (Returning(w) /\ log[w].read = "ok" /\ log[w].sched = None) =>
            /\ res[w].err
            /\ log[w].write = "-"

\* C10 (amended): every pass that read phase unset or PENDING and a schedule
\* that does not parse returns an error with no delay, attempts no status
\* write and no pod operation.
C10_MalformedSchedule ==
    \A w \in Workers :
        (Returning(w) /\ log[w].read = "ok" /\ log[w].sched = None
            /\ log[w].phase \in {"", PhasePending}) =>
            /\ res[w].err
            /\ res[w].after = 0
            /\ log[w].write = "-"
            /\ log[w].podGet = "-"
            /\ log[w].create = "-"

C10_Witness ==
    \E w \in Workers :
        /\ Returning(w) /\ log[w].due = "err" /\ res[w].err
        /\ wq.failures[wkey[w]] >= 1

C12_PerKeySerialization ==
    /\ \A k \in Keys : Cardinality({w \in Workers : wkey[w] = k}) <= 1
    /\ \A w \in Workers : wkey[w] # NoKey => wkey[w] \in wq.processing
    /\ \A k \in wq.processing :
          /\ \A i \in 1..Len(wq.queue) : wq.queue[i] # k
          /\ \E w \in Workers : wkey[w] = k

C12_Witness ==
    \E w \in Workers, v \in Workers :
        /\ v # w
        /\ pc[w] \in {"podGet", "podCreate", "update"}
        /\ wkey[w] \in wq.dirty
        /\ edits >= 1
        /\ pc[v] = "idle"

\* C14: a pass whose read of the At returned NotFound returns success with no
\* requeue and no delay, and has attempted no status write, no pod read and
\* no pod create.
C14_NotFoundIsSuccess ==
    \A w \in Workers :
        (Returning(w) /\ log[w].read = "notfound") =>
            /\ ~res[w].err
            /\ ~res[w].requeue
            /\ res[w].after = 0
            /\ log[w].write = "-"
            /\ log[w].podGet = "-"
            /\ log[w].create = "-"

C14_Witness ==
    \E w \in Workers :
        /\ Returning(w) /\ log[w].read = "notfound"
        /\ at[wkey[w]].state = "deleted"
        /\ PodOf(wkey[w]).exists

\* C15: a pass that read stored phase DONE returns success with no requeue
\* and no delay and has attempted no status write and no pod operation,
\* whatever schedule the resource carries then.
C15_DoneIsSticky ==
    \A w \in Workers :
        (Returning(w) /\ log[w].read = "ok" /\ log[w].phase = PhaseDone) =>
            /\ ~res[w].err
            /\ ~res[w].requeue
            /\ res[w].after = 0
            /\ log[w].write = "-"
            /\ log[w].podGet = "-"
            /\ log[w].create = "-"
            /\ StoredPhase(wkey[w]) \in {PhaseDone, "gone"}

C15_Witness ==
    \E w \in Workers :
        /\ Returning(w) /\ log[w].read = "ok" /\ log[w].phase = PhaseDone
        /\ edits >= 1
        /\ log[w].sched = None

\* a delivery of k is in flight and k has not been added again since
Delivered(k) == k \in wq.processing /\ k \notin wq.dirty

\* C13: a key that has been added and not yet delivered is either in flight
\* (deferred until Done) or on the queue exactly once, however many times it
\* was added; Done of a delivery puts a key added meanwhile back on the
\* queue; and every added key is eventually delivered to a worker.
C13_NoLostWakeup ==
    /\ [](\A k \in wq.dirty :
             \/ k \in wq.processing /\ Len(SelectSeq(wq.queue, LAMBDA x : x = k)) = 0
             \/ k \notin wq.processing /\ Len(SelectSeq(wq.queue, LAMBDA x : x = k)) = 1)
    /\ [](\A i \in 1..Len(wq.queue) : wq.queue[i] \in wq.dirty)
    /\ \A k \in Keys : (k \in wq.dirty) ~> Delivered(k)

C13_Witness ==
    \E w \in Workers :
        /\ pc[w] = "ret" /\ log[w].read = "ok"
        /\ log[w].write = "-"
        /\ wkey[w] \in wq.dirty
        /\ edits >= 1

\* C16: when the status write of a pass fails (transient failure, conflict
\* or the At gone), the pass returns an error with no delay and the store is
\* as it was before the write; every pass builds its in-memory At from what
\* is stored, nothing is carried over from the pass before.
C16_StatusWriteFailure ==
    [][\A w \in Workers :
          /\ (pc[w] = "update" /\ pc'[w] = "ret" /\ log'[w].write # "ok") =>
                /\ res'[w].err
                /\ res'[w].after = 0
                /\ at' = at
                /\ hist' = hist
          /\ (pc[w] = "ret" /\ pc'[w] = "idle") => inst'[w] = NoInst
          /\ (pc[w] = "getAt" /\ log'[w].read = "ok") =>
                /\ inst[w] = NoInst
                /\ log'[w].phase = at[wkey[w]].phase
                /\ inst'[w].rv = at[wkey[w]].rv
                /\ inst'[w].phase \in {DefaultPhase(at[wkey[w]].phase), PhaseRunning}]_vars

C16_Witness ==
    \E w \in Workers :
        /\ Returning(w) /\ log[w].write = "fault" /\ res[w].err
        /\ log[w].wrote = PhaseDone
        /\ StoredPhase(wkey[w]) = PhaseRunning

\* C17 as stated: a pass whose status write met a conflict is retried at
\* once and is not given the backoff of generic errors: the failure count and
\* the retry timer of its key are as before.
C17_Original ==
    [][\A w \in Workers :
          (pc[w] = "ret" /\ log[w].write = "conflict" /\ pc'[w] = "idle") =>
              /\ wkey[w] \in wq'.dirty
              /\ wq'.failures[wkey[w]] = wq.failures[wkey[w]]
              /\ wq'.waiting[wkey[w]] = wq.waiting[wkey[w]]]_vars

\* C17 (amended): a conflict on the status write is returned as an error like
\* any other and gets the same backoff (failure counted, retry timer set);
\* the key is nevertheless back on the queue as soon as Done is called,
\* because the change of the At that caused the conflict added it while the
\* pass was in flight, and the pass that follows reads the At afresh.
C17_ConflictRetried ==
    [][\A w \in Workers :
          (pc[w] = "ret" /\ log[w].write = "conflict" /\ pc'[w] = "idle") =>
              /\ res[w] = ResultErr
              /\ wq'.queue = Append(wq.queue, wkey[w])
              /\ wq'.failures[wkey[w]] =
                    Min(wq.failures[wkey[w]] + 1, SatFailures)
              /\ wq'.waiting[wkey[w]] # None
              /\ wq'.waiting[wkey[w]] <= now + Backoff(wq.failures[wkey[w]])]_vars

C17_Witness ==
    \E w \in Workers :
        /\ Returning(w) /\ log[w].read = "ok" /\ log[w].phase = PhaseRunning
        /\ prev[wkey[w]].valid /\ prev[wkey[w]].err
        /\ prev[wkey[w]].phase = PhaseRunning
        /\ ~prev[wkey[w]].fault
        /\ prev[wkey[w]].create = "ok"
        /\ wq.failures[wkey[w]] = 1
        /\ wq.waiting[wkey[w]] > now

\* C18: the status write leaves the spec of the stored At as it is, and a
\* status write that meets no transient failure succeeds whenever the At is
\* there, also when the user edited the spec after the pass read the At.
C18_SpecStatusNoConflict ==
    [][\A w \in Workers :
          (pc[w] = "update" /\ pc'[w] = "ret") =>
              /\ at'[wkey[w]].schedule = at[wkey[w]].schedule
              /\ at'[wkey[w]].state = at[wkey[w]].state
              /\ (Live(wkey[w]) /\ log'[w].write # "fault") =>
                    log'[w].write = "ok"]_vars

\* C19: once the ctx of a pass is done, the next external call of that pass
\* (read of the At, read or create of the pod, status write) fails, changes
\* nothing in the store, and the pass returns an error.
C19_DeadlinePropagated ==
    [][\A w \in Workers :
          (ctxDone[w] /\ pc[w] \in {"getAt", "podGet", "podCreate", "update"}
              /\ pc'[w] # pc[w]) =>
              /\ pc'[w] = "ret"
              /\ res'[w].err
              /\ at' = at
              /\ pods' = pods]_vars

C21_WaitingHoldsNoWorker ==
    /\ \A w \in Workers : log[w].due = "future" => pc[w] = "ret"
    /\ \A k \in Keys :
          (wq.waiting[k] # None /\ k \notin wq.processing) =>
              \A w \in Workers : wkey[w] # k
    /\ \A w \in Single :
          (pc[w] = "idle" /\ wq.queue # <<>>) => ENABLED WGet(w)

C21_Witness ==
    \E j \in Keys, k \in Keys :
        /\ j # k
        /\ Live(j) /\ at[j].phase = ""
        /\ Parse(at[j].schedule).t > now
        /\ wq.waiting[j] > now
        /\ j \notin wq.processing
        /\ \A w \in Workers : wkey[w] # j
        /\ Live(k) /\ at[k].phase = PhaseRunning
        /\ PodOf(k).exists
        /\ creates[k] = 1

C23_CliExitStatus ==
    /\ cli.pc \notin {"off", "exited"} => cli.exit = None
    /\ cli.pc = "exited" =>
          /\ cli.exit # None
          /\ (~cli.cfgOk \/ ~cli.csOk \/ ~cli.listOk) =>
                (cli.exit # ExitOk /\ cli.i = 0)
          /\ (cli.cfgOk /\ cli.csOk /\ cli.listOk) =>
                (cli.exit = ExitOk /\ cli.i = cli.n)

C23_Witness ==
    /\ cli.pc = "exited"
    /\ cli.cfgOk /\ cli.csOk /\ cli.listOk
    /\ cli.n = 0
    /\ cli.exit = ExitOk
    /\ cli.out # <<>>

\* C24: a pass in phase RUNNING that found no pod and whose create call
\* succeeded returns success with no requeue, whatever the other calls of
\* that pass answered.
C24_CreationSuccess ==
    \A w \in Workers :
        (Returning(w) /\ log[w].create = "ok") => res[w] = ResultOk

C27_CreationFailure ==
    \A w \in Workers :
        log[w].create \in {"fault", "exists"} =>
            /\ Returning(w)
            /\ res[w] = ResultErr
            /\ log[w].phase = PhaseRunning /\ log[w].podGet = "absent"
            /\ log[w].write = "-"
            /\ creates[wkey[w]] = 0
            /\ StoredPhase(wkey[w]) = PhaseRunning

C27_Witness ==
    \E w \in Workers :
        /\ Returning(w)
        /\ log[w].create = "exists"
        /\ res[w].err
        /\ PodOf(wkey[w]).owner = NoKey

\* C28: a pass in phase RUNNING that finds the pod present and neither
\* Succeeded nor Failed returns success with no requeue and no delay; it has
\* made no create call and no status write, and its step changes neither the
\* store nor the queue.
C28_WaitOnRunningPod ==
    [][\A w \in Workers :
          (pc[w] = "podGet" /\ log'[w].podGet \in {PodPending, PodRunning}) =>
              /\ log[w].phase = PhaseRunning
              /\ pc'[w] = "ret"
              /\ res'[w] = ResultOk
              /\ log'[w].create = "-"
              /\ log'[w].write = "-"
              /\ at' = at /\ pods' = pods /\ wq' = wq
              /\ creates' = creates]_vars

C28_Witness ==
    \E w \in Workers :
        /\ Returning(w)
        /\ log[w].podGet = PodRunning
        /\ res[w] = ResultOk
        /\ log[w].write = "-"
        /\ PodOf(wkey[w]).owner = wkey[w]

\* C29: a pass whose read of the At, or whose read of the pod in phase
\* RUNNING, fails otherwise than with NotFound returns an error with no
\* delay, having made no create call and no status write (a failed read of
\* the At is followed by no pod read either); and a create call is made only
\* by a pass whose pod read answered NotFound.
C29_ReadErrors ==
    \A w \in Workers :
        /\ (log[w].read = "fault" \/ log[w].podGet = "fault") =>
              /\ Returning(w)
              /\ res[w] = ResultErr
              /\ log[w].create = "-"
              /\ log[w].write = "-"
        /\ log[w].read = "fault" => log[w].podGet = "-"
        /\ log[w].podGet = "fault" => log[w].phase = PhaseRunning
        /\ (log[w].create # "-" \/ pc[w] = "podCreate") => log[w].podGet = "absent"

C29_Witness ==
    \E w \in Workers :
        /\ Returning(w)
        /\ log[w].read = "ok"
        /\ log[w].podGet = "fault"
        /\ res[w].err
        /\ ~PodOf(wkey[w]).exists

\* C30: every pod the controller has created names the At it was derived
\* from as its controller, the reference being set before the pod is read or
\* created; a pass in which setting the reference fails returns an error with
\* no delay and makes no pod read, no create call and no status write.
C30_OwnershipLink ==
    /\ \A k \in Keys : PodOf(k).exists => PodOf(k).owner = k
    /\ \A w \in Workers :
          /\ (pc[w] \in {"podGet", "podCreate"} \/ log[w].podGet # "-"
                \/ log[w].create # "-") => log[w].owner = "set"
          /\ log[w].owner = "fault" =>
                /\ Returning(w)
                /\ res[w] = ResultErr
                /\ log[w].phase = PhaseRunning
                /\ log[w].podGet = "-"
                /\ log[w].create = "-"
                /\ log[w].write = "-"

C30_Witness ==
    \E w \in Workers :
        /\ Returning(w)
        /\ log[w].owner = "fault"
        /\ PodOf(wkey[w]).exists
        /\ PodOf(wkey[w]).owner = wkey[w]
        /\ creates[wkey[w]] = 1

\* C31: the pod newPodForCR derives is determined by name, namespace and
\* spec.command of the At: its name is the At's name followed by "-pod", its
\* namespace the At's, its label app the At's name, its restart policy
\* OnFailure, and its command the pieces of spec.command between the spaces
\* (none of them holds a space, joined by spaces they give spec.command
\* back). Two At objects equal in name, namespace and command give equal
\* pods, and two of one namespace with different names give pods with
\* different names.
C31_DeterministicDerivation ==
    /\ \A i \in DOMAIN drv.pod :
          drv.pod[i] # NotDerived =>
              LET cr == drv.cr[i]
                  pod == drv.pod[i]
              IN  /\ pod.name = cr.name \o "-pod"
                  /\ pod.namespace = cr.namespace
                  /\ pod.app = cr.name
                  /\ pod.restartPolicy = "OnFailure"
                  /\ Len(pod.command) >= 1
                  /\ \A j \in 1..Len(pod.command) :
                        \A n \in 1..Len(pod.command[j]) : pod.command[j][n] # " "
                  /\ Join(pod.command, " ") = cr.command
    /\ \A i \in DOMAIN drv.pod, j \in DOMAIN drv.pod :
          (drv.pod[i] # NotDerived /\ drv.pod[j] # NotDerived) =>
              /\ (/\ drv.cr[i].name = drv.cr[j].name
                  /\ drv.cr[i].namespace = drv.cr[j].namespace
                  /\ drv.cr[i].command = drv.cr[j].command) =>
                    drv.pod[i] = drv.pod[j]
              /\ (/\ drv.cr[i].namespace = drv.cr[j].namespace
                  /\ drv.cr[i].name # drv.cr[j].name) =>
                    drv.pod[i].name # drv.pod[j].name

C31_Witness ==
    /\ DOMAIN drv.pod = 1..2
    /\ drv.pod[1] # NotDerived /\ drv.pod[2] # NotDerived
    /\ drv.cr[1].name = drv.cr[2].name
    /\ drv.cr[1].namespace = drv.cr[2].namespace
    /\ drv.cr[1].command = drv.cr[2].command
    /\ drv.cr[1].phase # drv.cr[2].phase
    /\ drv.cr[1].command = <<"x", " ">>
    /\ drv.pod[1] = drv.pod[2]
    /\ drv.pod[1].command = <<(<<"x">>), <<>> >>

\* nothing is left of key k in the queue, on the timer or with a worker
Settled(k) ==
    /\ \A i \in 1..Len(wq.queue) : wq.queue[i] # k
    /\ k \notin wq.dirty
    /\ k \notin wq.processing
    /\ wq.waiting[k] = None
    /\ wq.failures[k] = 0
    /\ \A w \in Workers : wkey[w] # k

\* C32: once the At is deleted, a pass that reads it finds it gone and
\* returns success with no requeue; a pass that returns an error after the
\* deletion is one that had read the At before it was deleted (at most the
\* one in flight); and the key eventually is, and stays, off the queue, off
\* the timer and with no failure counted.
C32_DeletionBenign ==
    /\ [](\A w \in Workers :
            /\ (Returning(w) /\ log[w].read = "notfound") =>
                  (res[w] = ResultOk /\ at[wkey[w]].state = "deleted")
            /\ (Returning(w) /\ res[w].err /\ at[wkey[w]].state = "deleted") =>
                  (log[w].read = "ok" /\ log[w].write = "notfound"))
    /\ [][\A w \in Workers :
            (pc[w] = "getAt" /\ pc'[w] # "getAt"
                /\ at[wkey[w]].state = "deleted") =>
                (pc'[w] = "ret" /\ res'[w] = ResultOk /\ log'[w].read = "notfound")]_vars
    /\ \A k \in Keys : (at[k].state = "deleted") ~> [](Settled(k))

C32_Witness ==
    \E w \in Workers :
        /\ Returning(w)
        /\ at[wkey[w]].state = "deleted"
        /\ log[w].create = "ok"
        /\ log[w].write = "notfound"
        /\ res[w].err

\* C33: with the spec left as it is and no call failing, the follow-up a
\* pass asks for is due no earlier than the schedule it read; the timer
\* hands the key back no earlier than that schedule, the resource still
\* unset or PENDING; and the pass that asks for a follow-up is the first
\* pass of its resource, so the pass the timer brings about finds the
\* schedule reached, sets RUNNING and asks for no further follow-up.
C33_OneFollowUp ==
    /\ [][\A w \in Workers :
            (pc[w] = "ret" /\ pc'[w] = "idle" /\ res[w].after > 0) =>
                /\ ~prev[wkey[w]].valid
                /\ log[w].due = "future"
                /\ wq'.waiting[wkey[w]] >= log[w].sched]_vars
    /\ [][\A k \in Keys :
            (wq.waiting[k] # None /\ wq'.waiting[k] = None) =>
                /\ Live(k)
                /\ at[k].phase \in {"", PhasePending}
                /\ Parse(at[k].schedule).t <= now
                /\ k \in wq'.dirty]_vars
    /\ [](\A w \in Workers :
            (log[w].read = "ok" /\ prev[wkey[w]].valid
                /\ log[w].phase \in {"", PhasePending}) =>
                (log[w].due = "due" /\ inst[w].phase = PhaseRunning
                    /\ res[w].after = 0))

C33_Witness ==
    \E w \in Workers :
        /\ Returning(w)
        /\ prev[wkey[w]].valid /\ prev[wkey[w]].phase = ""
        /\ log[w].phase = "" /\ log[w].due = "due"
        /\ log[w].write = "ok"
        /\ StoredPhase(wkey[w]) = PhaseRunning
        /\ wq.waiting[wkey[w]] = None

C35_DoneOnlyOnOwnPod ==
    \A w \in Workers :
        /\ (log[w].write # "-" /\ log[w].wrote = PhaseDone) =>
              (PodOf(wkey[w]).exists /\ PodOf(wkey[w]).owner = wkey[w]
                  /\ creates[wkey[w]] >= 1)
        /\ log[w].podGet \in {PodPending, PodRunning, PodSucceeded, PodFailed} =>
              PodOf(wkey[w]).owner = wkey[w]

\* C36: a pass that reads a stored phase that is none of unset, PENDING,
\* RUNNING and DONE returns in that step, success with no requeue and no
\* delay; it makes no status write, no pod read and no create, and store,
\* pods and queue are as before.
C36_UnknownPhaseNoOp ==
    [][\A w \in Workers :
          (pc[w] = "getAt" /\ log'[w].read = "ok"
              /\ log'[w].phase \notin {"", PhasePending, PhaseRunning, PhaseDone}) =>
              /\ pc'[w] = "ret"
              /\ res'[w] = ResultOk
              /\ log'[w].owner = "-" /\ log'[w].podGet = "-"
              /\ log'[w].create = "-" /\ log'[w].write = "-"
              /\ at' = at /\ pods' = pods /\ wq' = wq
              /\ at[wkey[w]].phase = log'[w].phase]_vars

C36_Witness ==
    \E w \in Workers :
        /\ Returning(w)
        /\ log[w].read = "ok" /\ log[w].phase = PhaseOther
        /\ res[w] = ResultOk
        /\ log[w].write = "-"
        /\ StoredPhase(wkey[w]) = PhaseOther
        /\ PodOf(wkey[w]).exists

\* C37: every return of Reconcile is one of: no error and no delay, no error
\* and a positive delay, an error and no delay. No return carries an error
\* together with a delay, none asks for an immediate requeue, and a positive
\* delay comes only from the PENDING case, for a schedule ahead of the clock.
C37_OutcomeShape ==
    \A w \in Workers :
        /\ ~res[w].requeue
        /\ res[w].after >= 0
        /\ res[w].err => res[w].after = 0
        /\ Returning(w) =>
              \/ res[w] = ResultOk
              \/ res[w] = ResultErr
              \/ res[w].after > 0 /\ res[w] = ResultAfter(res[w].after)
        /\ res[w].after > 0 =>
              /\ Returning(w)
              /\ log[w].read = "ok"
              /\ DefaultPhase(log[w].phase) = PhasePending
              /\ log[w].due = "future"

C37_Witness ==
    \E w \in Workers :
        /\ Returning(w) /\ res[w] = ResultAfter(2)
        /\ log[w].read = "ok" /\ log[w].phase = "" /\ log[w].due = "future"
        /\ log[w].write = "-"

====
